---- MODULE Spec2Model ----
(***************************************************************************)
(* Model of app.py: a Streamlit script that lists the voices of a cloud    *)
(* text-to-speech provider, lets the user pick language, voice, rate and   *)
(* pitch, and forwards one synthesis request per press of Generate.        *)
(*                                                                         *)
(* A Streamlit script is executed top to bottom once per user event (a     *)
(* "run").  What survives between runs is the st.cache_data memo of        *)
(* get_voices and what the last run rendered.  Strings are modelled as     *)
(* sequences of one-character strings so that split, join, strip and the   *)
(* f-string of the display label are computed, not assumed.                *)
(***************************************************************************)
EXTENDS Integers, Sequences, FiniteSets, TLC

VARIABLES
    pc,                     \* position of the script: idle, creds, voices, select, generate
    status,                 \* how the current/last run ended: none, running, ok, stopped, crashed
    pressed,                \* this run was triggered by the Generate button
    buttonRendered,         \* the last run rendered the text area and the button
    cache,                  \* st.cache_data memo of get_voices
    response,               \* what the provider answered to list_voices (history)
    okReturned,             \* the mapping of the first error-free get_voices return (history)
    listCalls,              \* provider list_voices calls made by the process
    listCallsRun,           \* provider list_voices calls made by this run
    synthCallsRun,          \* provider synthesize_speech calls made by this run
    available_voices,       \* app.py:108
    selected_language,      \* app.py:110
    voice_display_map,      \* app.py:118
    selected_display_voice, \* app.py:120
    selected_voice_name,    \* app.py:123
    speaking_rate,          \* app.py:125, in quarters (1.0 is 4)
    pitch,                  \* app.py:134
    input_text,             \* app.py:145
    request,                \* the request handed to client.synthesize_speech
    providerAudio,          \* what the provider answered to synthesize_speech
    audio_content,          \* app.py:159
    played,                 \* bytes given to st.audio
    download,               \* bytes given to st.download_button
    messages,               \* messages shown by this run
    probeName,              \* input of the language-code derivation (SpecDerive)
    probeCode               \* its result (SpecDerive)

vars == <<pc, status, pressed, buttonRendered, cache, response, okReturned,
          listCalls, listCallsRun, synthCallsRun, available_voices,
          selected_language, voice_display_map, selected_display_voice,
          selected_voice_name, speaking_rate, pitch, input_text, request,
          providerAudio, audio_content, played, download, messages,
          probeName, probeCode>>

runVars == <<available_voices, selected_language, voice_display_map,
             selected_display_voice, selected_voice_name, speaking_rate,
             pitch, input_text, request, providerAudio, audio_content,
             played, download>>

probeVars == <<probeName, probeCode>>

(***************************************************************************)
(* Bounds of the model.                                                    *)
(***************************************************************************)
MaxVoices == 3          \* longest provider voice list
MaxListCalls == 3       \* cap on the list_voices counter
MaxNameLen == 4         \* longest probed voice name in SpecDerive

(***************************************************************************)
(* Strings.                                                                *)
(***************************************************************************)
Hyphen == "-"

Whitespace == {" ", "\n", "\t"}

\* str.split("-"): the segments between hyphens, empty segments kept.
RECURSIVE SplitFrom(_, _, _)
SplitFrom(s, i, current) ==
    IF i > Len(s) THEN <<current>>
    ELSE IF s[i] = Hyphen THEN <<current>> \o SplitFrom(s, i + 1, <<>>)
    ELSE SplitFrom(s, i + 1, Append(current, s[i]))

Split(s) == SplitFrom(s, 1, <<>>)

\* "-".join(parts)
RECURSIVE Join(_)
Join(parts) ==
    IF Len(parts) = 0 THEN <<>>
    ELSE IF Len(parts) = 1 THEN parts[1]
    ELSE parts[1] \o <<Hyphen>> \o Join(Tail(parts))

\* parts[:2]
FirstTwo(parts) == SubSeq(parts, 1, IF Len(parts) < 2 THEN Len(parts) ELSE 2)

\* A mutant of LanguageCodeOf: only the first segment is kept.
LanguageCodeFirstSegment(voice_name) == Join(SubSeq(Split(voice_name), 1, 1))

\* "-".join(voice_name.split("-")[:2])
LanguageCodeOf(voice_name) == Join(FirstTwo(Split(voice_name)))

\* str.strip(): leading and trailing whitespace removed.
RECURSIVE LStrip(_)
LStrip(s) ==
    IF Len(s) > 0 /\ s[1] \in Whitespace THEN LStrip(Tail(s)) ELSE s

RECURSIVE RStrip(_)
RStrip(s) ==
    IF Len(s) > 0 /\ s[Len(s)] \in Whitespace
    THEN RStrip(SubSeq(s, 1, Len(s) - 1)) ELSE s

Strip(s) == RStrip(LStrip(s))

\* A mutant of TextIsBlank: the text is tested without stripping.
TextIsEmptyUnstripped(text) == text = <<>>

\* not input_text.strip()
TextIsBlank(text) == Strip(text) = <<>>

\* str.capitalize() on the enum names, which are upper case throughout: the
\* first character stays, the rest is lowered.
LowerOf(c) ==
    CASE c = "A" -> "a" [] c = "C" -> "c" [] c = "D" -> "d" [] c = "E" -> "e"
      [] c = "F" -> "f" [] c = "G" -> "g" [] c = "I" -> "i" [] c = "L" -> "l"
      [] c = "M" -> "m" [] c = "N" -> "n" [] c = "O" -> "o" [] c = "P" -> "p"
      [] c = "R" -> "r" [] c = "S" -> "s" [] c = "T" -> "t" [] c = "U" -> "u"
      [] c = "V" -> "v" [] OTHER -> c

Capitalize(s) == [i \in 1..Len(s) |-> IF i = 1 THEN s[i] ELSE LowerOf(s[i])]

\* texttospeech.SsmlVoiceGender(value).name
SsmlVoiceGenderName(g) ==
    CASE g = 1 -> <<"M", "A", "L", "E">>
      [] g = 2 -> <<"F", "E", "M", "A", "L", "E">>
      [] g = 3 -> <<"N", "E", "U", "T", "R", "A", "L">>
      [] OTHER -> <<"S", "S", "M", "L", "_", "V", "O", "I", "C", "E", "_",
                    "G", "E", "N", "D", "E", "R", "_",
                    "U", "N", "S", "P", "E", "C", "I", "F", "I", "E", "D">>

\* A mutant of DisplayName: the label carries the gender only.
DisplayNameGenderOnly(name, gender) == <<"(">> \o gender \o <<")">>

\* f"{name} ({gender})"
DisplayName(name, gender) == name \o <<" ", "(">> \o gender \o <<")">>

(***************************************************************************)
(* The provider: the voices it may list and the audio it may return.       *)
(***************************************************************************)
EnUS == <<"e", "n", "-", "U", "S">>

NbNO == <<"n", "b", "-", "N", "O">>

FrFR == <<"f", "r", "-", "F", "R">>

FrCA == <<"f", "r", "-", "C", "A">>

WavenetF == <<"e", "n", "-", "U", "S", "-", "W", "a", "v", "e", "n", "e", "t", "-", "F">>

\* Voices as the provider lists them: name, language_codes, ssml_gender.
\* The third voice is named in lower case against an upper-case code, the
\* fourth has two language codes, the last has none.
VoicePool ==
    { [name |-> WavenetF, language_codes |-> <<EnUS>>, ssml_gender |-> 2],
      [name |-> <<"e", "n", "-", "U", "S", "-", "S", "t", "d", "-", "C">>,
       language_codes |-> <<EnUS>>, ssml_gender |-> 2],
      [name |-> <<"n", "b", "-", "n", "o", "-", "S", "t", "d", "-", "E">>,
       language_codes |-> <<NbNO>>, ssml_gender |-> 3],
      [name |-> <<"f", "r", "-", "F", "R", "-", "S", "t", "d", "-", "B">>,
       language_codes |-> <<FrFR, FrCA>>, ssml_gender |-> 1],
      [name |-> <<"u", "n", "d", "-", "S", "t", "d", "-", "A">>,
       language_codes |-> <<>>, ssml_gender |-> 0] }

VoiceLists == UNION { [1..n -> VoicePool] : n \in 0..MaxVoices }

\* Audio bytes the provider may return; the empty sequence is among them.
AudioPool == { <<>>, <<73, 68, 51>>, <<255, 251>> }

\* Texts the user may type.
DefaultText == <<"H", "e", "l", "l", "o", "!">>

TextPool == { <<>>, <<" ", "\n">>, <<" ", "H", "i", " ">>, DefaultText }

\* Slider bounds, the rate in quarters (step 0.25), the pitch in units (step 1.0).
RateMin == 1

RateMax == 16

RateDefault == 4

PitchMin == -20

PitchMax == 20

PitchDefault == 0

\* The slider positions the model lets the user take: both ends and the default.
RateChoices == {RateMin, RateDefault, RateMax}

PitchChoices == {PitchMin, PitchDefault, PitchMax}

(***************************************************************************)
(* Values.                                                                 *)
(***************************************************************************)
EmptyMap == [k \in {} |-> <<>>]

NoCache == [set |-> FALSE, value |-> EmptyMap, err |-> FALSE]

NoResponse == [kind |-> "none", voices |-> <<>>]

FailedResponse == [kind |-> "fail", voices |-> <<>>]

NoReturn == [some |-> FALSE, value |-> EmptyMap]

NoAudio == [some |-> FALSE, data |-> <<>>]

NoRequest == [sent |-> FALSE, text |-> <<>>, name |-> <<>>, language_code |-> <<>>,
              audio_encoding |-> "", speaking_rate |-> 0, pitch |-> 0]

(***************************************************************************)
(* get_voices.                                                             *)
(***************************************************************************)
\* A mutant of AppendVoice: the entry is put in front of the bucket.
PrependVoice(bucket, entry) == <<entry>> \o bucket

\* formatted_voices[language].append((name, display_name))
AppendVoice(bucket, entry) == Append(bucket, entry)

\* if language not in formatted_voices: formatted_voices[language] = []
WithBucket(formatted_voices, language) ==
    IF language \in DOMAIN formatted_voices THEN formatted_voices
    ELSE [k \in DOMAIN formatted_voices \cup {language} |->
            IF k \in DOMAIN formatted_voices THEN formatted_voices[k] ELSE <<>>]

\* The loop over voice_list.  language_codes[0] of a voice without language
\* codes raises IndexError, which leaves the loop: raised is TRUE.
RECURSIVE FormatVoices(_, _)
FormatVoices(voice_list, formatted_voices) ==
    IF voice_list = <<>> THEN [raised |-> FALSE, value |-> formatted_voices]
    ELSE LET voice == Head(voice_list) IN
         IF Len(voice.language_codes) = 0
         THEN [raised |-> TRUE, value |-> EmptyMap]
         ELSE LET name == voice.name
                  language == voice.language_codes[1]
                  gender == Capitalize(SsmlVoiceGenderName(voice.ssml_gender))
                  display_name == DisplayName(name, gender)
                  grouped == WithBucket(formatted_voices, language)
              IN FormatVoices(Tail(voice_list),
                    [grouped EXCEPT ![language] =
                        AppendVoice(@, <<name, display_name>>)])

\* The body of get_voices on a provider answer: the mapping it returns and
\* whether it went through the except branch (st.error, return {}).
GetVoicesBody(answer) ==
    IF answer.kind = "fail" THEN [value |-> EmptyMap, err |-> TRUE]
    ELSE LET r == FormatVoices(answer.voices, EmptyMap) IN
         IF r.raised THEN [value |-> EmptyMap, err |-> TRUE]
         ELSE [value |-> r.value, err |-> FALSE]

\* A mutant of CacheStore: nothing is memoized.
CacheStoreNothing(result) == NoCache

\* @st.cache_data: the value returned, with the messages it showed, is memoized.
CacheStore(result) == [set |-> TRUE, value |-> result.value, err |-> result.err]

(***************************************************************************)
(* The script, one run at a time.                                          *)
(***************************************************************************)
ListAnswers == {FailedResponse} \cup { [kind |-> "voices", voices |-> l] : l \in VoiceLists }

SynthAnswers == { [ok |-> FALSE, audio_content |-> <<>>] }
                    \cup { [ok |-> TRUE, audio_content |-> b] : b \in AudioPool }

ProbeAlphabet == {"a", "B", Hyphen}

ProbeNames == {WavenetF} \cup UNION { [1..n -> ProbeAlphabet] : n \in 0..MaxNameLen }

Init ==
    /\ pc = "idle"
    /\ status = "none"
    /\ pressed = FALSE
    /\ buttonRendered = FALSE
    /\ cache = NoCache
    /\ response = NoResponse
    /\ okReturned = NoReturn
    /\ listCalls = 0
    /\ listCallsRun = 0
    /\ synthCallsRun = 0
    /\ available_voices = EmptyMap
    /\ selected_language = <<>>
    /\ voice_display_map = EmptyMap
    /\ selected_display_voice = <<>>
    /\ selected_voice_name = <<>>
    /\ speaking_rate = 0
    /\ pitch = 0
    /\ input_text = <<>>
    /\ request = NoRequest
    /\ providerAudio = NoAudio
    /\ audio_content = NoAudio
    /\ played = NoAudio
    /\ download = NoAudio
    /\ messages = {}
    /\ probeName = <<>>
    /\ probeCode = <<>>

\* A run starts with nothing bound and nothing shown.
ResetRun ==
    /\ status' = "running"
    /\ pc' = "creds"
    /\ listCallsRun' = 0
    /\ synthCallsRun' = 0
    /\ available_voices' = EmptyMap
    /\ selected_language' = <<>>
    /\ voice_display_map' = EmptyMap
    /\ selected_display_voice' = <<>>
    /\ selected_voice_name' = <<>>
    /\ speaking_rate' = 0
    /\ pitch' = 0
    /\ input_text' = <<>>
    /\ request' = NoRequest
    /\ providerAudio' = NoAudio
    /\ audio_content' = NoAudio
    /\ played' = NoAudio
    /\ download' = NoAudio
    /\ messages' = {}
    /\ UNCHANGED <<buttonRendered, cache, response, okReturned, listCalls, probeVars>>

\* The page is loaded or a widget other than the button is changed.
Rerun ==
    /\ pc = "idle"
    /\ pressed' = FALSE
    /\ ResetRun

\* The Generate button, which the last run rendered, is pressed.
PressGenerate ==
    /\ pc = "idle"
    /\ buttonRendered
    /\ pressed' = TRUE
    /\ ResetRun

\* A mutant of StopScript: the script goes on after the credential error.
StopScriptMissing == "voices"

\* st.stop(): the run ends here.
StopScript == "idle"

\* The try block of the credential setup succeeds.
CredentialsOk ==
    /\ pc = "creds"
    /\ messages' = messages \cup {"connected"}
    /\ pc' = "voices"
    /\ UNCHANGED <<status, pressed, buttonRendered, cache, response, okReturned,
                   listCalls, listCallsRun, synthCallsRun, runVars, probeVars>>

\* The try block raises: st.error, st.info, st.stop.
CredentialsFail ==
    /\ pc = "creds"
    /\ messages' = messages \cup {"credential_error", "credential_info"}
    /\ status' = "stopped"
    /\ buttonRendered' = FALSE
    /\ pc' = StopScript
    /\ UNCHANGED <<pressed, cache, response, okReturned, listCalls, listCallsRun,
                   synthCallsRun, runVars, probeVars>>

\* get_voices() on a cache hit: the memoized value and its messages.
GetVoicesCached ==
    /\ pc = "voices"
    /\ cache.set
    /\ available_voices' = cache.value
    /\ messages' = messages \cup (IF cache.err THEN {"fetch_error"} ELSE {})
    /\ pc' = "select"
    /\ UNCHANGED <<status, pressed, buttonRendered, cache, response, okReturned,
                   listCalls, listCallsRun, synthCallsRun, selected_language,
                   voice_display_map, selected_display_voice, selected_voice_name,
                   speaking_rate, pitch, input_text, request, providerAudio,
                   audio_content, played, download, probeVars>>

\* get_voices() on a cache miss: one list_voices call, the body, the memo.
GetVoicesFetch ==
    /\ pc = "voices"
    /\ ~cache.set
    /\ listCalls < MaxListCalls
    /\ \E answer \in ListAnswers :
         LET result == GetVoicesBody(answer) IN
         /\ response' = answer
         /\ cache' = CacheStore(result)
         /\ available_voices' = result.value
         /\ messages' = messages \cup (IF result.err THEN {"fetch_error"} ELSE {})
         /\ okReturned' = IF ~result.err /\ ~okReturned.some
                          THEN [some |-> TRUE, value |-> result.value]
                          ELSE okReturned
    /\ listCalls' = listCalls + 1
    /\ listCallsRun' = listCallsRun + 1
    /\ pc' = "select"
    /\ UNCHANGED <<status, pressed, buttonRendered, synthCallsRun, selected_language,
                   voice_display_map, selected_display_voice, selected_voice_name,
                   speaking_rate, pitch, input_text, request, providerAudio,
                   audio_content, played, download, probeVars>>

\* {display: name for name, display in voice_options}: a later pair with the
\* same display replaces an earlier one.
VoiceDisplayMap(voice_options) ==
    [display \in { voice_options[i][2] : i \in 1..Len(voice_options) } |->
        LET last == CHOOSE i \in 1..Len(voice_options) :
                        /\ voice_options[i][2] = display
                        /\ \A j \in 1..Len(voice_options) :
                               voice_options[j][2] = display => j <= i
        IN voice_options[last][1]]

\* sorted(available_voices.keys()).index("en-US") raises ValueError without it.
HasDefaultLanguage(voices) == EnUS \in DOMAIN voices

\* if available_voices: is false, the sidebar controls are skipped.
SelectSkipped ==
    /\ pc = "select"
    /\ DOMAIN available_voices = {}
    /\ pc' = "generate"
    /\ UNCHANGED <<status, pressed, buttonRendered, cache, response, okReturned,
                   listCalls, listCallsRun, synthCallsRun, runVars, messages, probeVars>>

\* The language selectbox cannot be built: the exception ends the run.
SelectRaises ==
    /\ pc = "select"
    /\ DOMAIN available_voices # {}
    /\ ~HasDefaultLanguage(available_voices)
    /\ status' = "crashed"
    /\ buttonRendered' = FALSE
    /\ messages' = messages \cup {"uncaught_exception"}
    /\ pc' = "idle"
    /\ UNCHANGED <<pressed, cache, response, okReturned, listCalls, listCallsRun,
                   synthCallsRun, runVars, probeVars>>

\* Language, voice, rate and pitch.  Widgets the last run did not render
\* return their defaults: en-US, the first voice, 1.0 and 0.0.
SelectVoice ==
    /\ pc = "select"
    /\ DOMAIN available_voices # {}
    /\ HasDefaultLanguage(available_voices)
    /\ \E language \in (IF buttonRendered THEN DOMAIN available_voices ELSE {EnUS}) :
         LET voice_options == available_voices[language] IN
         \E i \in (IF buttonRendered THEN 1..Len(voice_options) ELSE {1}) :
           /\ selected_language' = language
           /\ voice_display_map' = VoiceDisplayMap(voice_options)
           /\ selected_display_voice' = voice_options[i][2]
           /\ selected_voice_name' = VoiceDisplayMap(voice_options)[voice_options[i][2]]
    /\ speaking_rate' \in (IF buttonRendered THEN RateChoices ELSE {RateDefault})
    /\ pitch' \in (IF buttonRendered THEN PitchChoices ELSE {PitchDefault})
    /\ pc' = "generate"
    /\ UNCHANGED <<status, pressed, buttonRendered, cache, response, okReturned,
                   listCalls, listCallsRun, synthCallsRun, available_voices,
                   input_text, request, providerAudio, audio_content, played,
                   download, messages, probeVars>>

\* st.text_area: what the user typed, the default text if the last run did
\* not render the text area.
TextChoices == IF buttonRendered THEN TextPool ELSE {DefaultText}

\* A mutant of VoicesUnavailable: the guard never stops the handler.
VoicesNeverUnavailable(voices) == FALSE

\* elif not available_voices
VoicesUnavailable(voices) == DOMAIN voices = {}

\* A mutant of SynthesizeSpeech: a failed call is made a second time.
SynthesizeSpeechRetry(text, voice_name, rate, p, answer) ==
    [request |-> [sent |-> TRUE, text |-> text, name |-> voice_name,
                  language_code |-> LanguageCodeOf(voice_name),
                  audio_encoding |-> "MP3", speaking_rate |-> rate, pitch |-> p],
     calls |-> IF answer.ok THEN 1 ELSE 2,
     audio_content |-> IF answer.ok THEN [some |-> TRUE, data |-> answer.audio_content]
                       ELSE NoAudio,
     messages |-> IF answer.ok THEN {} ELSE {"api_call_failed"}]

\* synthesize_speech(text, voice_name, speaking_rate, pitch) on a provider
\* answer: the request it sends, the calls it makes, what it returns (None
\* after an exception) and what it shows.
SynthesizeSpeech(text, voice_name, rate, p, answer) ==
    [request |-> [sent |-> TRUE, text |-> text, name |-> voice_name,
                  language_code |-> LanguageCodeOf(voice_name),
                  audio_encoding |-> "MP3", speaking_rate |-> rate, pitch |-> p],
     calls |-> 1,
     audio_content |-> IF answer.ok THEN [some |-> TRUE, data |-> answer.audio_content]
                       ELSE NoAudio,
     messages |-> IF answer.ok THEN {} ELSE {"api_call_failed"}]

\* if audio_content: None and b"" are both false.
Truthy(audio) == audio.some /\ audio.data # <<>>

\* The script reaches its last line.
EndRun ==
    /\ status' = "ok"
    /\ buttonRendered' = TRUE
    /\ pc' = "idle"

\* st.button returns False: nothing more is done.
NotPressed ==
    /\ pc = "generate"
    /\ ~pressed
    /\ input_text' \in TextChoices
    /\ EndRun
    /\ UNCHANGED <<pressed, cache, response, okReturned, listCalls, listCallsRun,
                   synthCallsRun, available_voices, selected_language,
                   voice_display_map, selected_display_voice, selected_voice_name,
                   speaking_rate, pitch, request, providerAudio, audio_content,
                   played, download, messages, probeVars>>

\* if not input_text.strip(): st.warning
GenerateBlank ==
    /\ pc = "generate"
    /\ pressed
    /\ \E text \in TextChoices :
         /\ TextIsBlank(text)
         /\ input_text' = text
    /\ messages' = messages \cup {"enter_text"}
    /\ EndRun
    /\ UNCHANGED <<pressed, cache, response, okReturned, listCalls, listCallsRun,
                   synthCallsRun, available_voices, selected_language,
                   voice_display_map, selected_display_voice, selected_voice_name,
                   speaking_rate, pitch, request, providerAudio, audio_content,
                   played, download, probeVars>>

\* elif not available_voices: st.error
GenerateNoVoices ==
    /\ pc = "generate"
    /\ pressed
    /\ \E text \in TextChoices :
         /\ ~TextIsBlank(text)
         /\ input_text' = text
    /\ VoicesUnavailable(available_voices)
    /\ messages' = messages \cup {"voices_unavailable"}
    /\ EndRun
    /\ UNCHANGED <<pressed, cache, response, okReturned, listCalls, listCallsRun,
                   synthCallsRun, available_voices, selected_language,
                   voice_display_map, selected_display_voice, selected_voice_name,
                   speaking_rate, pitch, request, providerAudio, audio_content,
                   played, download, probeVars>>

\* else: synthesize_speech, then the player and the download button, or the
\* failure message.  With no voices selected_voice_name is not bound and
\* reading it raises NameError.
GenerateCall ==
    /\ pc = "generate"
    /\ pressed
    /\ ~VoicesUnavailable(available_voices)
    /\ \E text \in TextChoices, answer \in SynthAnswers :
         /\ ~TextIsBlank(text)
         /\ input_text' = text
         /\ IF DOMAIN available_voices = {}
            THEN /\ status' = "crashed"
                 /\ buttonRendered' = FALSE
                 /\ pc' = "idle"
                 /\ messages' = messages \cup {"uncaught_exception"}
                 /\ UNCHANGED <<synthCallsRun, request, providerAudio,
                                audio_content, played, download>>
            ELSE LET r == SynthesizeSpeech(text, selected_voice_name,
                                           speaking_rate, pitch, answer)
                 IN /\ request' = r.request
                    /\ synthCallsRun' = synthCallsRun + r.calls
                    /\ providerAudio' = IF answer.ok
                                        THEN [some |-> TRUE, data |-> answer.audio_content]
                                        ELSE NoAudio
                    /\ audio_content' = r.audio_content
                    /\ played' = IF Truthy(r.audio_content) THEN r.audio_content ELSE NoAudio
                    /\ download' = IF Truthy(r.audio_content) THEN r.audio_content ELSE NoAudio
                    /\ messages' = messages \cup r.messages \cup
                                     (IF Truthy(r.audio_content)
                                      THEN {"audio_generated"} ELSE {"generate_failed"})
                    /\ EndRun
    /\ UNCHANGED <<pressed, cache, response, okReturned, listCalls, listCallsRun,
                   available_voices, selected_language, voice_display_map,
                   selected_display_voice, selected_voice_name, speaking_rate,
                   pitch, probeVars>>

Next ==
    \/ Rerun
    \/ PressGenerate
    \/ CredentialsOk
    \/ CredentialsFail
    \/ GetVoicesCached
    \/ GetVoicesFetch
    \/ SelectSkipped
    \/ SelectRaises
    \/ SelectVoice
    \/ NotPressed
    \/ GenerateBlank
    \/ GenerateNoVoices
    \/ GenerateCall

Spec == Init /\ [][Next]_vars

(***************************************************************************)
(* The language-code derivation on its own, over every short voice name.   *)
(***************************************************************************)
InitDerive ==
    /\ pc = "probe"
    /\ status = "none"
    /\ pressed = FALSE
    /\ buttonRendered = FALSE
    /\ cache = NoCache
    /\ response = NoResponse
    /\ okReturned = NoReturn
    /\ listCalls = 0
    /\ listCallsRun = 0
    /\ synthCallsRun = 0
    /\ available_voices = EmptyMap
    /\ selected_language = <<>>
    /\ voice_display_map = EmptyMap
    /\ selected_display_voice = <<>>
    /\ selected_voice_name = <<>>
    /\ speaking_rate = 0
    /\ pitch = 0
    /\ input_text = <<>>
    /\ request = NoRequest
    /\ providerAudio = NoAudio
    /\ audio_content = NoAudio
    /\ played = NoAudio
    /\ download = NoAudio
    /\ messages = {}
    /\ probeName \in ProbeNames
    /\ probeCode = <<>>

Derive ==
    /\ pc = "probe"
    /\ probeCode' = LanguageCodeOf(probeName)
    /\ pc' = "probed"
    /\ UNCHANGED <<status, pressed, buttonRendered, cache, response, okReturned,
                   listCalls, listCallsRun, synthCallsRun, runVars, messages, probeName>>

NextDerive == Derive

SpecDerive == InitDerive /\ [][NextDerive]_vars

(***************************************************************************)
(* Properties.                                                             *)
(***************************************************************************)
RunFinished == pc = "idle" /\ status = "ok"

AfterGetVoices == pc \in {"select", "generate"} \/ RunFinished

AllWhitespace(text) == \A i \in 1..Len(text) : text[i] \in Whitespace

HasCode(voice) == Len(voice.language_codes) > 0

AllHaveCodes(list) == \A i \in 1..Len(list) : HasCode(list[i])

NamesOf(bucket) == [i \in 1..Len(bucket) |-> bucket[i][1]]

ListedUnder(list, language) ==
    SelectSeq(list, LAMBDA v : HasCode(v) /\ v.language_codes[1] = language)

ListedNames(list, language) ==
    LET vs == ListedUnder(list, language) IN [i \in 1..Len(vs) |-> vs[i].name]

FirstCodes(list) ==
    { list[i].language_codes[1] : i \in { j \in 1..Len(list) : HasCode(list[j]) } }

\* The buckets are the first language codes of the list, and each bucket
\* holds the names of the voices listed under its code, in list order.
GroupedAsListed(list, mapping) ==
    /\ DOMAIN mapping = FirstCodes(list)
    /\ \A language \in DOMAIN mapping :
         /\ Len(mapping[language]) > 0
         /\ NamesOf(mapping[language]) = ListedNames(list, language)

\* Every voice of the list is in some bucket.
NoneDropped(list, mapping) ==
    \A i \in 1..Len(list) :
        \E language \in DOMAIN mapping :
            \E k \in 1..Len(mapping[language]) : mapping[language][k][1] = list[i].name

\* C1 as stated: for every provider voice list, get_voices returns a mapping
\* in which every listed voice is in exactly the bucket of its first
\* language code, in list order, none dropped, no bucket empty.
C1_AnyListGrouped ==
    (AfterGetVoices /\ response.kind = "voices") =>
        /\ GroupedAsListed(response.voices, available_voices)
        /\ NoneDropped(response.voices, available_voices)

\* C1 as amended: the grouping holds for every provider voice list in which
\* every voice has a language code; if some voice has none, get_voices
\* returns the empty mapping and shows an error.
C1_ListWithCodesGrouped ==
    (AfterGetVoices /\ response.kind = "voices") =>
        IF AllHaveCodes(response.voices)
        THEN /\ GroupedAsListed(response.voices, available_voices)
             /\ NoneDropped(response.voices, available_voices)
        ELSE /\ available_voices = EmptyMap
             /\ "fetch_error" \in messages

C1_Witness ==
    /\ AfterGetVoices
    /\ response.kind = "voices"
    /\ Cardinality(DOMAIN available_voices) >= 2
    /\ \E language \in DOMAIN available_voices :
         /\ Len(available_voices[language]) >= 2
         /\ available_voices[language][1] # available_voices[language][2]

\* The press reached the synthesis call: the run ended, the text is not
\* blank and there are voices.
PassedGuards ==
    /\ RunFinished
    /\ pressed
    /\ ~AllWhitespace(input_text)
    /\ DOMAIN available_voices # {}

OneCallAsChosen ==
    /\ request.sent
    /\ synthCallsRun = 1
    /\ request.audio_encoding = "MP3"
    /\ request.speaking_rate = speaking_rate
    /\ request.pitch = pitch

\* C2 as stated: a press that passes the guards makes exactly one MP3 call
\* with the chosen rate and pitch; the outcome is the provider's bytes,
\* unmodified, played and offered for download, or None with an error message.
C2_OneCallBytesOrNone ==
    PassedGuards =>
        /\ OneCallAsChosen
        /\ \/ /\ providerAudio.some
              /\ audio_content = providerAudio
              /\ played = providerAudio
              /\ download = providerAudio
           \/ /\ audio_content = NoAudio
              /\ played = NoAudio
              /\ download = NoAudio
              /\ "api_call_failed" \in messages
              /\ "generate_failed" \in messages

\* C2 as amended: exactly one MP3 call with the chosen rate and pitch; the
\* provider's bytes are returned unmodified; bytes that are not empty are
\* played and offered for download as they are; after a failed call (None)
\* or an empty byte sequence nothing is played and an error is shown.
C2_OneCallBytesOrFailure ==
    PassedGuards =>
        /\ OneCallAsChosen
        /\ audio_content = providerAudio
        /\ \/ /\ providerAudio.some
              /\ providerAudio.data # <<>>
              /\ played = providerAudio
              /\ download = providerAudio
              /\ "audio_generated" \in messages
           \/ /\ ~providerAudio.some \/ providerAudio.data = <<>>
              /\ played = NoAudio
              /\ download = NoAudio
              /\ "generate_failed" \in messages
              /\ ~providerAudio.some => "api_call_failed" \in messages

C2_Witness ==
    /\ PassedGuards
    /\ played.some
    /\ Len(played.data) > 1

CatalogNames(mapping) ==
    UNION { { mapping[language][k][1] : k \in 1..Len(mapping[language]) } :
              language \in DOMAIN mapping }

\* C3: a press with blank text shows a message and makes no provider call,
\* and every synthesis request carries text that is not blank, a voice name
\* of the catalog, a rate in [0.25, 4.0] and a pitch in [-20, 20].
C3_NoCallOutsidePreconditions ==
    /\ synthCallsRun > 0 => request.sent
    /\ request.sent =>
         /\ ~AllWhitespace(request.text)
         /\ request.name \in CatalogNames(cache.value)
         /\ request.speaking_rate >= RateMin
         /\ request.speaking_rate <= RateMax
         /\ request.pitch >= PitchMin
         /\ request.pitch <= PitchMax
    /\ (pressed /\ pc = "idle" /\ AllWhitespace(input_text)
            /\ status \in {"ok", "crashed"}) =>
         /\ status = "ok"
         /\ "enter_text" \in messages
         /\ synthCallsRun = 0
         /\ listCallsRun = 0

C3_Witness ==
    /\ RunFinished
    /\ pressed
    /\ Len(input_text) > 0
    /\ AllWhitespace(input_text)
    /\ DOMAIN available_voices # {}
    /\ "enter_text" \in messages

ListCallFailed == response.kind = "fail"

FailureHandled ==
    /\ status # "crashed"
    /\ synthCallsRun = 0
    /\ AfterGetVoices => (available_voices = EmptyMap /\ "fetch_error" \in messages)

\* C4 as stated: after a failed list-voices call get_voices returns the
\* empty mapping with an error, nothing raises, and a Generate press reports
\* that the voice list is unavailable without a provider call.
C4_FailedListAnyPress ==
    ListCallFailed =>
        /\ FailureHandled
        /\ (RunFinished /\ pressed) => "voices_unavailable" \in messages

\* C4 as amended: as stated, except that the press reports the missing voice
\* list when the text is not blank and the missing text when it is blank.
C4_FailedListPressByText ==
    ListCallFailed =>
        /\ FailureHandled
        /\ (RunFinished /\ pressed /\ ~AllWhitespace(input_text)) =>
               (messages = {"connected", "fetch_error", "voices_unavailable"})
        /\ (RunFinished /\ pressed /\ AllWhitespace(input_text)) =>
               (messages = {"connected", "fetch_error", "enter_text"})

C4_Witness ==
    /\ ListCallFailed
    /\ RunFinished
    /\ pressed
    /\ listCallsRun = 0
    /\ "voices_unavailable" \in messages

\* C5: once get_voices has returned without error, no step makes another
\* list-voices call (the count is and stays one) and every get_voices return
\* gives the mapping of the first return.
C5_MemoizedAfterSuccess ==
    [][okReturned.some =>
         /\ listCalls = 1
         /\ listCalls' = 1
         /\ (pc = "voices" /\ pc' = "select") => available_voices' = okReturned.value]_vars

C5_Witness ==
    /\ okReturned.some
    /\ pc = "select"
    /\ listCallsRun = 0
    /\ available_voices = okReturned.value
    /\ DOMAIN available_voices # {}

\* C6: a run whose credential setup failed has shown the error and is over,
\* with no list-voices and no synthesize call made by it.
C6_CredentialFailureHalts ==
    status = "stopped" =>
        /\ pc = "idle"
        /\ "credential_error" \in messages
        /\ listCallsRun = 0
        /\ synthCallsRun = 0
        /\ ~buttonRendered

C6_Witness ==
    /\ status = "stopped"
    /\ pressed
    /\ DOMAIN cache.value # {}

HyphenPositions(name) == { i \in 1..Len(name) : name[i] = Hyphen }

Least(S) == CHOOSE x \in S : \A y \in S : x <= y

\* The name up to, not including, its second hyphen; the whole name if it
\* has only one.
UpToSecondHyphen(name) ==
    LET later == { h \in HyphenPositions(name) : h > Least(HyphenPositions(name)) }
    IN SubSeq(name, 1, IF later = {} THEN Len(name) ELSE Least(later) - 1)

\* C7: for a voice name of at least two hyphen-separated segments the
\* derived language code is the first two segments joined by a hyphen, and
\* "en-US-Wavenet-F" gives "en-US".
C7_FirstTwoSegments ==
    pc = "probed" =>
        /\ HyphenPositions(probeName) # {} => probeCode = UpToSecondHyphen(probeName)
        /\ probeName = WavenetF => probeCode = EnUS

C7_Witness ==
    /\ pc = "probed"
    /\ probeName = WavenetF
    /\ probeCode = EnUS

Selected == selected_language \in DOMAIN available_voices

\* C8: in the selected bucket every label looks up the name it was built
\* from, and the name given to synthesis is the one of the selected label.
C8_LabelLooksUpName ==
    Selected =>
        LET voice_options == available_voices[selected_language] IN
        /\ \A i \in 1..Len(voice_options) :
               voice_display_map[voice_options[i][2]] = voice_options[i][1]
        /\ \A i \in 1..Len(voice_options) :
               voice_options[i][2] = selected_display_voice =>
                   /\ selected_voice_name = voice_options[i][1]
                   /\ request.sent => request.name = voice_options[i][1]

C8_Witness ==
    /\ Selected
    /\ request.sent
    /\ Len(available_voices[selected_language]) >= 2
    /\ available_voices[selected_language][1][1] # available_voices[selected_language][2][1]
    /\ selected_display_voice = available_voices[selected_language][1][2]

\* C9: no run ends in an unhandled exception.
C9_NoRunCrashes == status # "crashed"

\* C10: the language code of a synthesis request is the code of the bucket
\* the voice was selected from.
C10_RequestCodeIsBucketCode ==
    request.sent => request.language_code = selected_language

====
